---- MODULE Spec2Model ----
(***************************************************************************)
(* Model of config/lily58_oled.c: the OLED status screen of a Lily58 split *)
(* keyboard running ZMK.  The left half shows a logo until the first layer *)
(* change and then a layer label and a modifier label; the right half      *)
(* shows a WPM number and a progress bar.                                  *)
(*                                                                         *)
(* The LVGL objects are records (hidden flag, text, value, colour); a      *)
(* handle that has not been created is NULL.  Every host callback is one   *)
(* action: the host calls them one at a time and each runs to completion.  *)
(* Host state read by a handler (the highest active layer, the explicit    *)
(* modifier flags, the payload of the WPM event) is an input of the        *)
(* action, drawn from a bounded set.                                       *)
(***************************************************************************)
EXTENDS Integers, Sequences, FiniteSets, TLC

VARIABLES
    CONFIG_ZMK_SPLIT_BLE_ROLE_PERIPHERAL, \* build flag: TRUE on the right half
    logo_img,     \* left: logo image            NULL or [hidden]
    layer_lbl,    \* left: "LAYER: ..." label    NULL or [hidden, text]
    mod_lbl,      \* left: modifier label        NULL or [hidden, text]
    wpm_lbl,      \* right: "WPM" header         NULL or [hidden, text]
    wpm_val,      \* right: number label         NULL or [hidden, text]
    wpm_bar,      \* right: progress bar         NULL or [hidden, value, color]
    built,        \* zmk_display_status_screen has run
    idx,          \* layer_event_handler's local idx, as last read (-1: never)
    mods,         \* update_mod_label's local mods, as last read (-1: never)
    ev_wpm,       \* the wpm field of the event last read by wpm_event_handler
    ev_kind,      \* the callback that ran last
    twice,        \* layer_event_handler ran last and also just before
    ret           \* what the last handler returned

\* The render elements and what they show: the ScreenState of both sides.
screen == <<logo_img, layer_lbl, mod_lbl, wpm_lbl, wpm_val, wpm_bar>>

vars == <<CONFIG_ZMK_SPLIT_BLE_ROLE_PERIPHERAL, logo_img, layer_lbl, mod_lbl,
          wpm_lbl, wpm_val, wpm_bar, built, idx, mods, ev_wpm, ev_kind,
          twice, ret>>

(***************************************************************************)
(* Bounds of the model.                                                    *)
(***************************************************************************)
\* Layer indices the host reports are 0..MaxLayer (the table has 4 names).
MaxLayer == 5
\* WPM values the host delivers are 0..MaxWpm (the parameter is 8 bits wide).
MaxWpm == 300

(***************************************************************************)
(* Constants of the program and of the host API it uses.                   *)
(***************************************************************************)
NULL == <<>>

layer_names == <<"QWERTY", "NAV", "SYM", "FUN">>
NUM_LAYERS == Len(layer_names)

\* zmk_mod_flags_t bits (one bit per modifier key, left keys in the low nibble)
MOD_LCTL == 1
MOD_LSFT == 2
MOD_LALT == 4
MOD_LGUI == 8
MOD_RCTL == 16
MOD_RSFT == 32
MOD_RALT == 64
MOD_RGUI == 128

ZMK_EV_EVENT_BUBBLE == "ZMK_EV_EVENT_BUBBLE"

\* uint8_t: the width of update_wpm's parameter, of idx and of zmk_mod_flags_t
uint8_t(n) == n % 256

\* the cap is lost: the first argument comes back as it is
MIN_NoCap(a, b) == a

MIN(a, b) == IF a < b THEN a ELSE b

\* a & b on naturals
RECURSIVE BitAnd(_, _)
BitAnd(a, b) ==
    IF a = 0 \/ b = 0 THEN 0
    ELSE (a % 2) * (b % 2) + 2 * BitAnd(a \div 2, b \div 2)

(***************************************************************************)
(* C library: string building.                                             *)
(***************************************************************************)
strcat(dst, src) == dst \o src

Digit == <<"0", "1", "2", "3", "4", "5", "6", "7", "8", "9">>

\* the decimal digits of n >= 0
RECURSIVE Decimal(_)
Decimal(n) ==
    IF n < 10 THEN Digit[n + 1] ELSE Decimal(n \div 10) \o Digit[(n % 10) + 1]

RECURSIVE Spaces(_)
Spaces(n) == IF n <= 0 THEN "" ELSE " " \o Spaces(n - 1)

\* "%4d": a field of four characters
Format3d_Width4(n) == LET s == Decimal(n) IN Spaces(4 - Len(s)) \o s

\* printf's "%3d": right-justified in a field of at least 3 characters
Format3d(n) == LET s == Decimal(n) IN Spaces(3 - Len(s)) \o s

\* snprintf(buf, size, ...): at most size - 1 characters are stored
snprintf(size, s) == IF Len(s) < size THEN s ELSE SubSeq(s, 1, size - 1)

(***************************************************************************)
(* LVGL: the retained-mode objects.                                        *)
(***************************************************************************)
lv_color_make(r, g, b) == <<r, g, b>>
\* the bar's indicator colour before the widget sets one
NoColor == <<>>

lv_img_create == [hidden |-> FALSE]
lv_label_create == [hidden |-> FALSE, text |-> "Text"]
lv_bar_create == [hidden |-> FALSE, value |-> 0, color |-> NoColor]

lv_label_set_text(obj, s) == [obj EXCEPT !.text = s]
lv_obj_add_flag_HIDDEN(obj) == [obj EXCEPT !.hidden = TRUE]
lv_obj_clear_flag_HIDDEN(obj) == [obj EXCEPT !.hidden = FALSE]
lv_bar_set_value(obj, v) == [obj EXCEPT !.value = v]
lv_obj_set_style_bg_color(obj, col) == [obj EXCEPT !.color = col]

(***************************************************************************)
(* Helpers of the widget.                                                  *)
(***************************************************************************)
\* a build of the flag that reports the left half whatever the role is
is_left_side_Always == TRUE

\* peripheral = right half, central = left half
is_left_side == IF CONFIG_ZMK_SPLIT_BLE_ROLE_PERIPHERAL THEN FALSE ELSE TRUE

\* tests only the left-hand variant of each modifier
mod_buf_LeftOnly(m) ==
    LET b0 == ""
        b1 == IF BitAnd(m, MOD_LCTL) # 0 THEN strcat(b0, "Ctl ") ELSE b0
        b2 == IF BitAnd(m, MOD_LALT) # 0 THEN strcat(b1, "Alt ") ELSE b1
        b3 == IF BitAnd(m, MOD_LSFT) # 0 THEN strcat(b2, "Sft ") ELSE b2
        b4 == IF BitAnd(m, MOD_LGUI) # 0 THEN strcat(b3, "Gui ") ELSE b3
    IN  IF Len(b4) = 0 THEN "---" ELSE b4

\* the separating space after each abbreviation is left out
mod_buf_NoSpace(m) ==
    LET b0 == ""
        b1 == IF BitAnd(m, MOD_LCTL) # 0 \/ BitAnd(m, MOD_RCTL) # 0
              THEN strcat(b0, "Ctl") ELSE b0
        b2 == IF BitAnd(m, MOD_LALT) # 0 \/ BitAnd(m, MOD_RALT) # 0
              THEN strcat(b1, "Alt") ELSE b1
        b3 == IF BitAnd(m, MOD_LSFT) # 0 \/ BitAnd(m, MOD_RSFT) # 0
              THEN strcat(b2, "Sft") ELSE b2
        b4 == IF BitAnd(m, MOD_LGUI) # 0 \/ BitAnd(m, MOD_RGUI) # 0
              THEN strcat(b3, "Gui") ELSE b3
    IN  IF Len(b4) = 0 THEN "---" ELSE b4

\* the modifier string update_mod_label builds in buf for the flags m
mod_buf(m) ==
    LET b0 == ""
        b1 == IF BitAnd(m, MOD_LCTL) # 0 \/ BitAnd(m, MOD_RCTL) # 0
              THEN strcat(b0, "Ctl ") ELSE b0
        b2 == IF BitAnd(m, MOD_LALT) # 0 \/ BitAnd(m, MOD_RALT) # 0
              THEN strcat(b1, "Alt ") ELSE b1
        b3 == IF BitAnd(m, MOD_LSFT) # 0 \/ BitAnd(m, MOD_RSFT) # 0
              THEN strcat(b2, "Sft ") ELSE b2
        b4 == IF BitAnd(m, MOD_LGUI) # 0 \/ BitAnd(m, MOD_RGUI) # 0
              THEN strcat(b3, "Gui ") ELSE b3
    IN  IF Len(b4) = 0 THEN "---" ELSE b4

\* also reveals the label it has just written
update_mod_label_Reveal(host_mods) ==
    IF mod_lbl = NULL
    THEN UNCHANGED <<mod_lbl, mods>>
    ELSE /\ mods' = uint8_t(host_mods)
         /\ mod_lbl' = lv_obj_clear_flag_HIDDEN(
                           lv_label_set_text(mod_lbl, mod_buf(uint8_t(host_mods))))

\* host_mods is what zmk_hid_get_explicit_mods() returns during the call
update_mod_label(host_mods) ==
    IF mod_lbl = NULL
    THEN UNCHANGED <<mod_lbl, mods>>
    ELSE /\ mods' = uint8_t(host_mods)
         /\ mod_lbl' = lv_label_set_text(mod_lbl, mod_buf(uint8_t(host_mods)))

\* the thresholds are compared with <= instead of <
wpm_color_Inclusive(wpm) ==
    IF wpm <= 60 THEN lv_color_make(0, 255, 0)
    ELSE IF wpm <= 100 THEN lv_color_make(255, 208, 0)
    ELSE lv_color_make(255, 64, 64)

\* green < 60, yellow < 100, red >= 100
wpm_color(wpm) ==
    IF wpm < 60 THEN lv_color_make(0, 255, 0)
    ELSE IF wpm < 100 THEN lv_color_make(255, 208, 0)
    ELSE lv_color_make(255, 64, 64)

\* writes without testing the handles (a write through a null handle is
\* shown as the element coming to hold the written content)
update_wpm_NoGuard(arg) ==
    LET wpm == uint8_t(arg)
        val == IF wpm_val = NULL THEN lv_label_create ELSE wpm_val
        bar == IF wpm_bar = NULL THEN lv_bar_create ELSE wpm_bar
    IN  /\ wpm_val' = lv_label_set_text(val, snprintf(8, Format3d(wpm)))
        /\ wpm_bar' = lv_obj_set_style_bg_color(
                          lv_bar_set_value(bar, MIN(wpm, 200)), wpm_color(wpm))

\* arg is the value passed at the call; the parameter is a uint8_t
update_wpm(arg) ==
    LET wpm == uint8_t(arg)
    IN  IF wpm_val = NULL \/ wpm_bar = NULL
        THEN UNCHANGED <<wpm_val, wpm_bar>>
        ELSE /\ wpm_val' = lv_label_set_text(wpm_val, snprintf(8, Format3d(wpm)))
             /\ wpm_bar' = lv_obj_set_style_bg_color(
                               lv_bar_set_value(wpm_bar, MIN(wpm, 200)),
                               wpm_color(wpm))

(***************************************************************************)
(* Screen builders.                                                        *)
(***************************************************************************)
build_left_screen ==
    /\ logo_img' = lv_img_create
    /\ layer_lbl' = lv_obj_add_flag_HIDDEN(
                        lv_label_set_text(lv_label_create, "LAYER: QWERTY"))
    /\ mod_lbl' = lv_obj_add_flag_HIDDEN(
                      lv_label_set_text(lv_label_create, "---"))
    /\ UNCHANGED <<wpm_lbl, wpm_val, wpm_bar>>

\* Called by zmk_display_status_screen but defined nowhere in the file: a
\* header label, a number label and a bar, all visible, showing zero.
build_right_screen ==
    /\ wpm_lbl' = lv_label_set_text(lv_label_create, "WPM")
    /\ wpm_val' = lv_label_set_text(lv_label_create, "  0")
    /\ wpm_bar' = lv_bar_set_value(lv_bar_create, 0)
    /\ UNCHANGED <<logo_img, layer_lbl, mod_lbl>>

\* builds the left screen whatever the side is
zmk_display_status_screen_LeftOnly ==
    /\ ~built
    /\ build_left_screen
    /\ built' = TRUE
    /\ ev_kind' = "build"
    /\ twice' = FALSE
    /\ UNCHANGED <<CONFIG_ZMK_SPLIT_BLE_ROLE_PERIPHERAL, idx, mods, ev_wpm, ret>>

\* The display entry point; the host calls it once, at display initialisation.
zmk_display_status_screen ==
    /\ ~built
    /\ IF is_left_side THEN build_left_screen ELSE build_right_screen
    /\ built' = TRUE
    /\ ev_kind' = "build"
    /\ twice' = FALSE
    /\ UNCHANGED <<CONFIG_ZMK_SPLIT_BLE_ROLE_PERIPHERAL, idx, mods, ev_wpm, ret>>

(***************************************************************************)
(* Event listeners.                                                        *)
(***************************************************************************)
\* the range test is one short: the last name of the table is never shown
layer_name_OffByOne(i) ==
    IF i < NUM_LAYERS - 1 THEN layer_names[i + 1] ELSE "???"

\* (idx < NUM_LAYERS) ? layer_names[idx] : "???"   (the table is 0-based in C)
layer_name(i) == IF i < NUM_LAYERS THEN layer_names[i + 1] ELSE "???"

\* a toggle instead of a one-way transition
show_status_Toggle(lbl) ==
    /\ logo_img' = IF logo_img # NULL
                   THEN [logo_img EXCEPT !.hidden = ~logo_img.hidden]
                   ELSE logo_img
    /\ layer_lbl' = [lbl EXCEPT !.hidden = ~lbl.hidden]
    /\ mod_lbl' = IF mod_lbl # NULL
                  THEN [mod_lbl EXCEPT !.hidden = ~mod_lbl.hidden]
                  ELSE mod_lbl

\* the modifier label is left as it was
show_status_LayerOnly(lbl) ==
    /\ logo_img' = IF logo_img # NULL THEN lv_obj_add_flag_HIDDEN(logo_img)
                   ELSE logo_img
    /\ layer_lbl' = lv_obj_clear_flag_HIDDEN(lbl)
    /\ UNCHANGED mod_lbl

\* revealing the modifier label also puts its placeholder text back
show_status_ResetMods(lbl) ==
    /\ logo_img' = IF logo_img # NULL THEN lv_obj_add_flag_HIDDEN(logo_img)
                   ELSE logo_img
    /\ layer_lbl' = IF lbl # NULL THEN lv_obj_clear_flag_HIDDEN(lbl) ELSE lbl
    /\ mod_lbl' = IF mod_lbl # NULL
                  THEN lv_obj_clear_flag_HIDDEN(lv_label_set_text(mod_lbl, "---"))
                  ELSE mod_lbl

\* Hide logo, show layer + mod labels; lbl is layer_lbl with its new text
show_status(lbl) ==
    /\ logo_img' = IF logo_img # NULL THEN lv_obj_add_flag_HIDDEN(logo_img)
                   ELSE logo_img
    /\ layer_lbl' = IF lbl # NULL THEN lv_obj_clear_flag_HIDDEN(lbl) ELSE lbl
    /\ mod_lbl' = IF mod_lbl # NULL THEN lv_obj_clear_flag_HIDDEN(mod_lbl)
                  ELSE mod_lbl

\* host_layer is what zmk_keymap_highest_layer_active() returns during the call
layer_event_handler(host_layer) ==
    /\ IF ~is_left_side \/ layer_lbl = NULL
       THEN UNCHANGED <<logo_img, layer_lbl, mod_lbl, idx>>
       ELSE /\ idx' = uint8_t(host_layer)
            /\ show_status(lv_label_set_text(layer_lbl,
                   snprintf(32, "LAYER: " \o layer_name(uint8_t(host_layer)))))
    /\ ret' = ZMK_EV_EVENT_BUBBLE
    /\ ev_kind' = "layer"
    /\ twice' = (ev_kind = "layer")
    /\ UNCHANGED <<CONFIG_ZMK_SPLIT_BLE_ROLE_PERIPHERAL, wpm_lbl, wpm_val,
                   wpm_bar, built, mods, ev_wpm>>

\* reports the event as handled once the label has been refreshed
mod_event_handler_Handled(host_mods) ==
    /\ IF ~is_left_side
       THEN UNCHANGED <<mod_lbl, mods>> /\ ret' = ZMK_EV_EVENT_BUBBLE
       ELSE update_mod_label(host_mods) /\ ret' = "ZMK_EV_EVENT_HANDLED"
    /\ ev_kind' = "mod"
    /\ twice' = FALSE
    /\ UNCHANGED <<CONFIG_ZMK_SPLIT_BLE_ROLE_PERIPHERAL, logo_img, layer_lbl,
                   wpm_lbl, wpm_val, wpm_bar, built, idx, ev_wpm>>

mod_event_handler(host_mods) ==
    /\ IF ~is_left_side
       THEN UNCHANGED <<mod_lbl, mods>>
       ELSE update_mod_label(host_mods)
    /\ ret' = ZMK_EV_EVENT_BUBBLE
    /\ ev_kind' = "mod"
    /\ twice' = FALSE
    /\ UNCHANGED <<CONFIG_ZMK_SPLIT_BLE_ROLE_PERIPHERAL, logo_img, layer_lbl,
                   wpm_lbl, wpm_val, wpm_bar, built, idx, ev_wpm>>

\* ev is the event cast by as_zmk_wpm_state_changed: [wpm |-> value]
wpm_event_handler(ev) ==
    /\ IF is_left_side
       THEN UNCHANGED <<wpm_val, wpm_bar, ev_wpm>>
       ELSE IF ev # NULL
            THEN ev_wpm' = ev.wpm /\ update_wpm(ev.wpm)
            ELSE UNCHANGED <<wpm_val, wpm_bar, ev_wpm>>
    /\ ret' = ZMK_EV_EVENT_BUBBLE
    /\ ev_kind' = "wpm"
    /\ twice' = FALSE
    /\ UNCHANGED <<CONFIG_ZMK_SPLIT_BLE_ROLE_PERIPHERAL, logo_img, layer_lbl,
                   mod_lbl, wpm_lbl, built, idx, mods>>

(***************************************************************************)
(* The specification.                                                      *)
(***************************************************************************)
\* Static initialisers of the file: every handle is NULL.  The role is a
\* build-time flag; both builds are considered.
Init ==
    /\ CONFIG_ZMK_SPLIT_BLE_ROLE_PERIPHERAL \in BOOLEAN
    /\ logo_img = NULL
    /\ layer_lbl = NULL
    /\ mod_lbl = NULL
    /\ wpm_lbl = NULL
    /\ wpm_val = NULL
    /\ wpm_bar = NULL
    /\ built = FALSE
    /\ idx = -1
    /\ mods = -1
    /\ ev_wpm = -1
    /\ ev_kind = "none"
    /\ twice = FALSE
    /\ ret = "none"

LayerChanged == \E l \in 0..MaxLayer : layer_event_handler(l)

ModifiersChanged == \E m \in 0..255 : mod_event_handler(m)

WpmChanged == \E w \in 0..MaxWpm : wpm_event_handler([wpm |-> w])

Next ==
    \/ zmk_display_status_screen
    \/ LayerChanged
    \/ ModifiersChanged
    \/ WpmChanged

Spec == Init /\ [][Next]_vars

(***************************************************************************)
(* Vocabulary of the properties.                                           *)
(***************************************************************************)
\* The half this build is for, read from the role flag itself.
Side == IF CONFIG_ZMK_SPLIT_BLE_ROLE_PERIPHERAL THEN "RIGHT" ELSE "LEFT"

LogoVisible == logo_img # NULL /\ ~logo_img.hidden
LayerShown == layer_lbl # NULL /\ ~layer_lbl.hidden
ModShown == mod_lbl # NULL /\ ~mod_lbl.hidden
\* the status labels have replaced the logo
StatusShown == LayerShown /\ ModShown /\ ~LogoVisible

\* bit k of m
HasBit(m, k) == (m \div (2 ^ k)) % 2 = 1

(***************************************************************************)
(* C1 - One-way transition on the LEFT side: once the status labels are    *)
(* visible and the logo is hidden, no later notification of any kind makes *)
(* the logo visible again or hides a status label; a second layer change   *)
(* leaves the visibility as the first left it.                             *)
(***************************************************************************)
C1_OneWayTransition ==
    [][(Side = "LEFT" /\ StatusShown) => StatusShown']_vars

\* two layer changes in a row have been handled and the labels are shown
C1_Witness ==
    Side = "LEFT" /\ twice /\ ev_kind = "layer" /\ StatusShown

(***************************************************************************)
(* C2 - On the LEFT side, in every state after the screen is built,        *)
(* exactly one of logo and status labels is visible: the logo is visible   *)
(* iff both labels are hidden, and the two labels are hidden or visible    *)
(* together.                                                               *)
(***************************************************************************)
C2_ExactlyOneVisible ==
    (Side = "LEFT" /\ built) =>
        /\ logo_img # NULL /\ layer_lbl # NULL /\ mod_lbl # NULL
        /\ LogoVisible <=> (layer_lbl.hidden /\ mod_lbl.hidden)
        /\ layer_lbl.hidden <=> mod_lbl.hidden

\* a modifier change handled after the labels replaced the logo
C2_Witness ==
    Side = "LEFT" /\ built /\ ev_kind = "mod" /\ LayerShown /\ ModShown
        /\ ~LogoVisible

(***************************************************************************)
(* C3 - Visibility on the LEFT side is changed only by the layer-change    *)
(* handler: right after the build the logo is visible and both labels are  *)
(* hidden with the texts "LAYER: QWERTY" and "---"; as long as no layer    *)
(* change has been handled the logo stays visible and the labels hidden;   *)
(* and a modifier or WPM notification never changes a hidden flag.         *)
(***************************************************************************)
C3_AfterBuild ==
    (Side = "LEFT" /\ ev_kind = "build") =>
        /\ LogoVisible
        /\ layer_lbl # NULL /\ layer_lbl.hidden
        /\ layer_lbl.text = "LAYER: QWERTY"
        /\ mod_lbl # NULL /\ mod_lbl.hidden
        /\ mod_lbl.text = "---"

\* idx = -1 after the build: no layer change has been handled since
C3_UntilLayerChange ==
    (Side = "LEFT" /\ built /\ idx = -1) =>
        /\ LogoVisible
        /\ layer_lbl.hidden /\ layer_lbl.text = "LAYER: QWERTY"
        /\ mod_lbl.hidden

C3_HiddenFlagsKept ==
    (Side = "LEFT" /\ built /\ ev_kind' \in {"mod", "wpm"}) =>
        /\ logo_img'.hidden = logo_img.hidden
        /\ layer_lbl'.hidden = layer_lbl.hidden
        /\ mod_lbl'.hidden = mod_lbl.hidden

C3_VisibilityOnlyByLayer ==
    /\ [](C3_AfterBuild /\ C3_UntilLayerChange)
    /\ [][C3_HiddenFlagsKept]_vars

\* a modifier change (Ctrl + Shift) handled before any layer change
C3_Witness ==
    /\ Side = "LEFT" /\ built /\ idx = -1
    /\ ev_kind = "mod" /\ mod_lbl.text = "Ctl Sft "
    /\ LogoVisible /\ mod_lbl.hidden

(***************************************************************************)
(* The state right after a WPM notification that reached the RIGHT side's  *)
(* elements: the handler ran last and the elements it writes to exist.     *)
(***************************************************************************)
SpeedHandled ==
    Side = "RIGHT" /\ ev_kind = "wpm" /\ wpm_val # NULL /\ wpm_bar # NULL

(***************************************************************************)
(* C4 - For every typing-speed value v delivered on the RIGHT side, values *)
(* above 255 included, the indicator value afterwards is min(v, 200), and  *)
(* so lies within [0, 200].                                                *)
(***************************************************************************)
C4_IndicatorIsMin ==
    SpeedHandled =>
        /\ wpm_bar.value = (IF ev_wpm <= 200 THEN ev_wpm ELSE 200)
        /\ wpm_bar.value \in 0..200

(***************************************************************************)
(* C5 - For every typing-speed value v delivered on the RIGHT side, the    *)
(* indicator's colour afterwards is green if v < 60, yellow if             *)
(* 60 <= v < 100 and red if v >= 100.                                      *)
(***************************************************************************)
C5_ColourBand ==
    SpeedHandled =>
        /\ ev_wpm < 60 => wpm_bar.color = <<0, 255, 0>>
        /\ (60 <= ev_wpm /\ ev_wpm < 100) => wpm_bar.color = <<255, 208, 0>>
        /\ ev_wpm >= 100 => wpm_bar.color = <<255, 64, 64>>

C7_ExpectedText(i) ==
    CASE i = 0 -> "LAYER: QWERTY"
      [] i = 1 -> "LAYER: NAV"
      [] i = 2 -> "LAYER: SYM"
      [] i = 3 -> "LAYER: FUN"
      [] OTHER -> "LAYER: ???"

C7_LayerText ==
    (Side = "LEFT" /\ built /\ ev_kind = "layer") =>
        /\ idx >= 0
        /\ layer_lbl.text = C7_ExpectedText(idx)
        /\ StatusShown
        /\ ret = ZMK_EV_EVENT_BUBBLE

\* an out-of-range index was handled
C7_Witness ==
    /\ Side = "LEFT" /\ built /\ ev_kind = "layer" /\ idx >= 4
    /\ layer_lbl.text = "LAYER: ???" /\ StatusShown

(***************************************************************************)
(* C8 - Every modifier change handled on the LEFT side sets the modifier   *)
(* text to the abbreviations of exactly the modifiers present, in the      *)
(* order Ctl, Alt, Sft, Gui, each once and followed by one space, where a  *)
(* modifier is present when its left or right key bit is set; the text is  *)
(* exactly "---" when none is present.                                     *)
(***************************************************************************)
\* bits 0..3 are the left Ctrl, Shift, Alt, Gui keys; bits 4..7 the right ones
C8_Present(m, k) == HasBit(m, k) \/ HasBit(m, k + 4)

C8_ExpectedText(m) ==
    IF \A k \in 0..3 : ~C8_Present(m, k)
    THEN "---"
    ELSE (IF C8_Present(m, 0) THEN "Ctl " ELSE "")
             \o (IF C8_Present(m, 2) THEN "Alt " ELSE "")
             \o (IF C8_Present(m, 1) THEN "Sft " ELSE "")
             \o (IF C8_Present(m, 3) THEN "Gui " ELSE "")

C8_ModifierText ==
    (Side = "LEFT" /\ built /\ ev_kind = "mod") =>
        /\ mods \in 0..255
        /\ mod_lbl.text = C8_ExpectedText(mods)

\* both Ctrl keys and the right Alt key (0x01 | 0x10 | 0x40) are held
C8_Witness ==
    /\ Side = "LEFT" /\ built /\ ev_kind = "mod" /\ mods = 81
    /\ mod_lbl.text = "Ctl Alt "

(***************************************************************************)
(* C9 - Side gating: on the RIGHT side a layer or modifier notification    *)
(* leaves every render element unchanged, on the LEFT side a WPM           *)
(* notification does; the side never changes.                              *)
(***************************************************************************)
C9_WrongSideStep ==
    \/ Side = "RIGHT" /\ ev_kind' \in {"layer", "mod"}
    \/ Side = "LEFT" /\ ev_kind' = "wpm"

C9_SideGating ==
    /\ [][C9_WrongSideStep => UNCHANGED screen]_vars
    /\ [][UNCHANGED CONFIG_ZMK_SPLIT_BLE_ROLE_PERIPHERAL]_vars

\* a layer change reached the built RIGHT side while the bar showed a speed
C9_Witness ==
    /\ Side = "RIGHT" /\ built /\ ev_kind = "layer"
    /\ wpm_bar.value = 120 /\ layer_lbl = NULL

(***************************************************************************)
(* C10 - A notification handled while the elements its handler writes to   *)
(* are absent changes no render element, and the handler returns as usual; *)
(* this holds for the layer, the modifier and the WPM handler.             *)
(***************************************************************************)
C10_HandlesAbsentStep ==
    \/ ev_kind' = "layer" /\ layer_lbl = NULL
    \/ ev_kind' = "mod" /\ mod_lbl = NULL
    \/ ev_kind' = "wpm" /\ (wpm_val = NULL \/ wpm_bar = NULL)

C10_SilentNoOp ==
    [][C10_HandlesAbsentStep =>
          (UNCHANGED screen /\ ret' = ZMK_EV_EVENT_BUBBLE)]_vars

\* a WPM notification was handled on the RIGHT side before the build
C10_Witness ==
    /\ Side = "RIGHT" /\ ~built /\ ev_kind = "wpm" /\ ev_wpm = 87
    /\ wpm_val = NULL /\ wpm_bar = NULL /\ ret = ZMK_EV_EVENT_BUBBLE

C12_Speed250 ==
    (Side = "RIGHT" /\ built /\ ev_kind = "wpm" /\ ev_wpm = 250) =>
        /\ wpm_val.text = "250"
        /\ wpm_bar.value = 200
        /\ wpm_bar.color = <<255, 64, 64>>
        /\ ~wpm_val.hidden /\ ~wpm_bar.hidden

\* the state that notification leaves
C12_Witness ==
    /\ Side = "RIGHT" /\ built /\ ev_kind = "wpm" /\ ev_wpm = 250
    /\ wpm_val.text = "250" /\ wpm_bar.value = 200

(***************************************************************************)
(* C13 - End to end on the LEFT side: after the build, a layer change to   *)
(* layer 1 followed by a modifier change to Ctrl + Shift leaves the logo   *)
(* hidden, both status labels visible, the layer text "LAYER: NAV" and the *)
(* modifier text "Ctl Sft ".                                               *)
(***************************************************************************)
\* exactly Ctrl and Shift are held, each by its left or right key or both
C13_CtrlShift(m) ==
    /\ C8_Present(m, 0) /\ C8_Present(m, 1)
    /\ ~C8_Present(m, 2) /\ ~C8_Present(m, 3)

C13_LayerThenModifiers ==
    (Side = "LEFT" /\ built /\ ev_kind = "mod" /\ idx = 1
        /\ mods >= 0 /\ C13_CtrlShift(mods)) =>
        /\ logo_img.hidden
        /\ ~layer_lbl.hidden /\ ~mod_lbl.hidden
        /\ layer_lbl.text = "LAYER: NAV"
        /\ mod_lbl.text = "Ctl Sft "

\* layer 1 is the layer last shown and left Ctrl + left Shift came after it
C13_Witness ==
    /\ Side = "LEFT" /\ built /\ ev_kind = "mod" /\ idx = 1 /\ mods = 3
    /\ layer_lbl.text = "LAYER: NAV" /\ mod_lbl.text = "Ctl Sft "
    /\ StatusShown

(***************************************************************************)
(* The left-side handlers as functions of the left screen, so that two     *)
(* delivery orders can be compared from one state.  s is a record of the   *)
(* three left handles; the result is the record after the handler.         *)
(***************************************************************************)
LeftScreen == [logo |-> logo_img, layer |-> layer_lbl, mod |-> mod_lbl]

\* the text layer_event_handler formats in buf, tabulated over uint8_t idx
LayerText == [i \in 0..255 |-> snprintf(32, "LAYER: " \o layer_name(i))]

\* the layer change also puts the placeholder back into the modifier label
layer_step_ResetMods(s, host_layer) ==
    IF ~is_left_side \/ s.layer = NULL
    THEN s
    ELSE [logo |-> IF s.logo # NULL THEN lv_obj_add_flag_HIDDEN(s.logo)
                   ELSE s.logo,
          layer |-> lv_obj_clear_flag_HIDDEN(lv_label_set_text(s.layer,
                        LayerText[uint8_t(host_layer)])),
          mod |-> IF s.mod # NULL
                  THEN lv_obj_clear_flag_HIDDEN(lv_label_set_text(s.mod, "---"))
                  ELSE s.mod]

\* layer_event_handler on s when the highest active layer is host_layer
layer_step(s, host_layer) ==
    IF ~is_left_side \/ s.layer = NULL
    THEN s
    ELSE [logo |-> IF s.logo # NULL THEN lv_obj_add_flag_HIDDEN(s.logo)
                   ELSE s.logo,
          layer |-> lv_obj_clear_flag_HIDDEN(lv_label_set_text(s.layer,
                        LayerText[uint8_t(host_layer)])),
          mod |-> IF s.mod # NULL THEN lv_obj_clear_flag_HIDDEN(s.mod)
                  ELSE s.mod]

\* mod_buf tabulated over the 256 values of zmk_mod_flags_t
ModText == [m \in 0..255 |-> mod_buf(m)]

\* mod_event_handler on s when the explicit modifier flags are host_mods
mod_step(s, host_mods) ==
    IF ~is_left_side \/ s.mod = NULL
    THEN s
    ELSE [s EXCEPT !.mod = lv_label_set_text(s.mod, ModText[uint8_t(host_mods)])]

(***************************************************************************)
(* C14 - Layer-change and modifier-change notifications commute on the     *)
(* LEFT side: from every state after the build, for every layer index l    *)
(* and modifier flags m, handling the layer change and then the modifier   *)
(* change ends in the same visibility, layer text and modifier text as     *)
(* handling them in the other order.  (The second conjunct ties the two    *)
(* functions to the handlers: every layer or modifier step of the system   *)
(* is the function applied to the value the handler read.)                 *)
(***************************************************************************)
C14_BothOrdersAgree ==
    (Side = "LEFT" /\ built) =>
        \A l \in 0..MaxLayer : \A m \in 0..255 :
            mod_step(layer_step(LeftScreen, l), m)
                = layer_step(mod_step(LeftScreen, m), l)

C14_StepIsHandler ==
    /\ (Side = "LEFT" /\ built /\ ev_kind' = "layer")
           => LeftScreen' = layer_step(LeftScreen, idx')
    /\ (Side = "LEFT" /\ built /\ ev_kind' = "mod")
           => LeftScreen' = mod_step(LeftScreen, mods')

C14_Commute ==
    /\ []C14_BothOrdersAgree
    /\ [][C14_StepIsHandler]_vars

\* before the first layer change, with a modifier text already written:
\* from here the two orders pass through different intermediate screens
C14_Witness ==
    /\ Side = "LEFT" /\ built /\ idx = -1 /\ mods = 8
    /\ LogoVisible /\ mod_lbl.text = "Gui "
    /\ mod_step(layer_step(LeftScreen, 2), 5)
           # layer_step(LeftScreen, 2)
    /\ mod_step(LeftScreen, 5) # layer_step(LeftScreen, 2)

(***************************************************************************)
(* C15 - Last write wins, also while hidden: after the LEFT build and any  *)
(* notifications, the modifier text is the formatting of the flags read at *)
(* the most recent modifier change ("---" if there was none) and the layer *)
(* text is the formatting of the layer read at the most recent layer       *)
(* change ("LAYER: QWERTY" if there was none).  A modifier change handled  *)
(* while the label is hidden is therefore what the label shows when the    *)
(* first layer change reveals it.                                          *)
(***************************************************************************)
C15_LastWriteWins ==
    (Side = "LEFT" /\ built) =>
        /\ mod_lbl.text =
               (IF mods = -1 THEN "---" ELSE C8_ExpectedText(mods))
        /\ layer_lbl.text =
               (IF idx = -1 THEN "LAYER: QWERTY" ELSE C7_ExpectedText(idx))

\* a single layer change has just revealed the labels, and the modifier
\* label shows the flags of an earlier modifier change, not the placeholder
C15_Witness ==
    /\ Side = "LEFT" /\ built /\ ev_kind = "layer" /\ ~twice
    /\ mods = 3 /\ ModShown /\ mod_lbl.text = "Ctl Sft "

(***************************************************************************)
(* C16 - On the RIGHT side the three outputs of the typing-speed update    *)
(* are mutually consistent: after a notification that updated the display, *)
(* the number label, the indicator value and the colour band all come from *)
(* the one value w that update_wpm received (the delivered value as a      *)
(* uint8_t): label = w right-justified in 3 characters, indicator =        *)
(* min(w, 200), band = green / yellow / red by w < 60, w < 100, otherwise. *)
(* They are written together or not at all: with the number label or the   *)
(* bar missing, neither changes.                                           *)
(***************************************************************************)
\* w (0..255) right-justified in a field of three characters
C16_Field3(w) ==
    IF w < 10 THEN "  " \o Digit[w + 1]
    ELSE IF w < 100 THEN " " \o Digit[(w \div 10) + 1] \o Digit[(w % 10) + 1]
    ELSE Digit[(w \div 100) + 1] \o Digit[((w \div 10) % 10) + 1]
             \o Digit[(w % 10) + 1]

C16_Band(w) ==
    IF w < 60 THEN <<0, 255, 0>>
    ELSE IF w < 100 THEN <<255, 208, 0>>
    ELSE <<255, 64, 64>>

C16_SameValue ==
    SpeedHandled =>
        \E w \in 0..255 :
            /\ w = ev_wpm % 256
            /\ wpm_val.text = C16_Field3(w)
            /\ wpm_bar.value = (IF w <= 200 THEN w ELSE 200)
            /\ wpm_bar.color = C16_Band(w)

C16_TogetherOrNotAtAll ==
    (ev_kind' = "wpm" /\ (wpm_val = NULL \/ wpm_bar = NULL)) =>
        UNCHANGED <<wpm_val, wpm_bar>>

C17_BuffersFit ==
    /\ (Side = "LEFT" /\ built) =>
           /\ Len(mod_lbl.text) <= 16
           /\ Len(mod_lbl.text) + 1 <= 32
           /\ Len(layer_lbl.text) <= 13
           /\ Len(layer_lbl.text) + 1 <= 32
    /\ SpeedHandled =>
           /\ Len(wpm_val.text) = 3
           /\ Len(wpm_val.text) + 1 <= 8

\* the longest texts: all four modifiers held, and the longest layer name
C17_Witness ==
    /\ Side = "LEFT" /\ built /\ mods = 255 /\ idx = 0
    /\ mod_lbl.text = "Ctl Alt Sft Gui " /\ Len(mod_lbl.text) = 16
    /\ layer_lbl.text = "LAYER: QWERTY" /\ Len(layer_lbl.text) = 13

====
